---- MODULE Spec2Model ----
(***************************************************************************)
(* The browser-session guard of src/src/routes/learningPathRoutes.ts       *)
(* (chromeInitialized, chromeInitPromise, ensureChromeInitialized,         *)
(* initializeChrome, scrapeWithRetry) together with the browser handle of  *)
(* GoogleScraperService (src/unnamed/part_002).                            *)
(*                                                                         *)
(* Granularity: one action is one event-loop task together with the        *)
(* promise continuations (microtasks) it triggers.  A launch of the        *)
(* browser, a backoff timer and a wrapped scrape operation settle in later *)
(* tasks, in any order.                                                    *)
(***************************************************************************)
EXTENDS Integers, Sequences, FiniteSets, TLC

\* ------------------------------------------------------------------ bounds
NumProcs == 2
\* the termination signals delivered before the process is gone
MaxSignals == 2

Procs == 1..NumProcs
\* a run of initializeChrome() is named after the caller that started it: that
\* caller awaits the run until it settles, so it has one run at a time
SeqIds == Procs
\* the retry budgets tried: none at all, one attempt, and the default of line 66
RetryBudgets == {0 - 1, 0, 2}
Labels == {"searchVideos"}
InitErrors == {"launch timeout", "no usable sandbox"}
OpErrors == {"boom"}
Signals == {"SIGINT", "SIGTERM"}

\* ------------------------------------------------------- program constants
InitMaxRetries == 3
InitBackoffBaseMs == 1000
RetryBackoffBaseMs == 2000

VARIABLES
    chromeInitialized,   \* learningPathRoutes.ts:29
    chromeInitPromise,   \* learningPathRoutes.ts:30, 0 is null, else the run whose promise it is
    browser,             \* GoogleScraperService.browser is non-null
    seqs,                \* the runs of initializeChrome()
    callers,             \* the callers of ensureChromeInitialized() / scrapeWithRetry()
    acqSettled,          \* history: some googleScraperService.initialize() call has settled
    acquisitions,        \* history: the googleScraperService.initialize() calls of the last step
    settled,             \* history: the run that settled in the last step, with its outcome
    failed,              \* history: a run was rejected and no acquisition has succeeded since
    acqTotal,            \* history: the initialize() calls made since the request in
                         \* progress began, -1 once requests have overlapped
    shutdown,            \* the process and its signal handlers, learningPathRoutes.ts:1195-1207
    response             \* the last response of POST /video-options

vars == <<chromeInitialized, chromeInitPromise, browser, seqs, callers, acqSettled,
          acquisitions, settled, failed, acqTotal, shutdown, response>>

\* ------------------------------------------------------------ values
Outcome(k, n, m) == [kind |-> k, n |-> n, msg |-> m]
None == Outcome("none", 0, "")
Ok == Outcome("ok", 0, "")
\* learningPathRoutes.ts:52-56
InitError(n, e) == Outcome("Failed to initialize Chrome after n attempts: msg", n, e)
\* learningPathRoutes.ts:74
EmptyError(label) == Outcome("msg returned empty result", 0, label)
\* learningPathRoutes.ts:85
ExhaustedError(label) == Outcome("msg failed after all retry attempts", 0, label)
\* an error thrown by the wrapped operation
Thrown(e) == Outcome("thrown", 0, e)
\* the value of the n-th invocation of the wrapped operation
Value(label, n) == Outcome("value", n, label)

IsError(o) == o.kind \notin {"none", "ok", "value"}

RECURSIVE Pow(_, _)
Pow(b, e) == IF e = 0 THEN 1 ELSE b * Pow(b, e - 1)

FreeSeq == [st |-> "free", attempt |-> 0, calls |-> 0, delays |-> <<>>]

\* no run settled in the last step
NoSettle == [run |-> 0, outcome |-> None]

\* fresh and stale are history.  fresh of a caller waiting for its next attempt:
\* since chromeInitialized was last cleared, an initialize() call made after the
\* caller's last failed attempt has succeeded; of a caller inside its operation:
\* it held when the operation was invoked.  stale: the runs whose outstanding
\* initialize() call was made before the caller's last failed attempt
IdleCaller == [pc |-> "idle", kind |-> "none", label |-> "", maxRetries |-> 0, attempt |-> 0,
               opCalls |-> 0, joined |-> 0, initOutcome |-> None, result |-> None,
               delays |-> <<>>, fresh |-> FALSE, stale |-> {}]

\* the process is up and no signal has arrived; handlers are the signal handlers
\* awaiting their googleScraperService.close(), closed is the outcome of the
\* close() of the handler that went on to process.exit
Up == [st |-> "up", handlers |-> <<>>, closed |-> "none"]

\* a response of a route: status and the body's success, error and searchTime
Response(status, success, error) ==
    [status |-> status, success |-> success, error |-> error, searchTime |-> TRUE]
NoResponse == [status |-> 0, success |-> FALSE, error |-> "", searchTime |-> FALSE]

\* the program state as one value, so that the handlers compose as in the code
State == [chromeInitialized |-> chromeInitialized, chromeInitPromise |-> chromeInitPromise,
          browser |-> browser, seqs |-> seqs, callers |-> callers, acquisitions |-> 0,
          settled |-> NoSettle, failed |-> failed, acqTotal |-> acqTotal,
          shutdown |-> shutdown, response |-> response]

\* ------------------------------------------------------------ scrapeWithRetry
\* the exponential schedule of initializeChrome in place of the linear one
RetryDelayExponential(attempt) == Pow(2, attempt) * InitBackoffBaseMs

\* the delay of learningPathRoutes.ts:82, attempt already incremented
RetryDelay(attempt) == RetryBackoffBaseMs * attempt

\* a catch block without the rethrow of line 81
RetryExhaustedNever(attempt, maxRetries) == FALSE

\* the test of line 81 with >= for >
RetryExhaustedEarly(attempt, maxRetries) == attempt >= maxRetries

\* the test of learningPathRoutes.ts:81
RetryExhausted(attempt, maxRetries) == attempt > maxRetries

\* a catch block that waits its backoff before the test of line 81
CatchRecordWaitsFirst(cr, err) ==
    LET a == cr.attempt + 1
        r == [cr EXCEPT !.attempt = a, !.delays = Append(@, RetryDelay(a)), !.fresh = FALSE]
    IN IF RetryExhausted(a, cr.maxRetries)
       THEN [r EXCEPT !.pc = "done", !.result = err]
       ELSE [r EXCEPT !.pc = "backoff"]

\* learningPathRoutes.ts:77-83 for caller record cr: the record after the catch block
CatchRecord(cr, err) ==
    LET a == cr.attempt + 1 IN
    IF RetryExhausted(a, cr.maxRetries)
    THEN [cr EXCEPT !.attempt = a, !.pc = "done", !.result = err, !.fresh = FALSE]
    ELSE [cr EXCEPT !.attempt = a, !.pc = "backoff", !.delays = Append(@, RetryDelay(a)),
                    !.fresh = FALSE]

\* learningPathRoutes.ts:72: the wrapped operation is invoked
InvokeOp(cr) == [cr EXCEPT !.pc = "inOp", !.opCalls = @ + 1, !.stale = {}]

\* history: the callers of cs have just observed a failed attempt, with the
\* initialize() calls of these runs outstanding; with chromeInitialized cleared
\* no waiting caller has a Ready state to go by
ObserveFailure(g, cs) ==
    [g EXCEPT !.callers = [c \in Procs |->
        LET cr == [g.callers[c] EXCEPT
                      !.fresh = @ /\ (g.chromeInitialized \/ g.callers[c].pc = "inOp")]
        IN IF c \in cs /\ cr.pc = "backoff"
           THEN [cr EXCEPT !.stale = {s \in SeqIds : g.seqs[s].st = "acquiring"}]
           ELSE cr]]

\* history: the outstanding initialize() call of run s has settled, with success
\* or not; a success is fresh for the callers waiting since a failure they
\* observed before the call was made
ObserveAcquisition(g, s, success) ==
    [g EXCEPT !.callers = [c \in Procs |->
        LET cr == g.callers[c] IN
        IF success /\ cr.attempt >= 1 /\ cr.pc \in {"backoff", "awaitInit"} /\ s \notin cr.stale
        THEN [cr EXCEPT !.fresh = TRUE, !.stale = @ \ {s}]
        ELSE [cr EXCEPT !.stale = @ \ {s}]]]

\* a scrapeWithRetry that goes on to its operation whatever the guard answered
AfterEnsureInvokesAnyway(cr, o) ==
    LET r == [cr EXCEPT !.initOutcome = o, !.joined = 0] IN
    IF cr.kind = "ensure" THEN [r EXCEPT !.pc = "done", !.result = o] ELSE InvokeOp(r)

\* what a caller does when its ensureChromeInitialized() promise settles with o
AfterEnsure(cr, o) ==
    LET r == [cr EXCEPT !.initOutcome = o, !.joined = 0] IN
    IF cr.kind = "ensure" THEN [r EXCEPT !.pc = "done", !.result = o]
    ELSE IF o = Ok THEN InvokeOp(r)
    ELSE CatchRecord(r, o)

\* the callers awaiting the promise of run s
Waiters(g, s) == {c \in Procs : g.callers[c].pc = "awaitInit" /\ g.callers[c].joined = s}

\* the promise of run s settles with o: every awaiting caller continues; a
\* scrapeWithRetry caller whose await rejects runs its catch block (lines 78-80)
Deliver(g, s, o) ==
    LET ws == Waiters(g, s)
        invalidate == IsError(o) /\ \E c \in ws : g.callers[c].kind = "scrape"
    IN ObserveFailure(
         [g EXCEPT !.callers = [c \in Procs |-> IF c \in ws THEN AfterEnsure(g.callers[c], o)
                                                ELSE g.callers[c]],
                   !.seqs[s] = FreeSeq,
                   !.settled = [run |-> s, outcome |-> o],
                   !.failed = IF IsError(o) THEN TRUE ELSE @,
                   !.chromeInitialized = IF invalidate THEN FALSE ELSE @,
                   !.chromeInitPromise = IF invalidate THEN 0 ELSE @],
         IF IsError(o) THEN ws ELSE {})

\* ------------------------------------------------------------ initializeChrome
\* a success path that clears the marker and forgets the Ready flag of line 45
InitSucceededNoFlag(g, s) ==
    Deliver([ObserveAcquisition(g, s, TRUE) EXCEPT !.chromeInitPromise = 0,
                                                    !.failed = FALSE], s, Ok)

\* a success path that sets the Ready flag and leaves the marker of line 46 set
InitSucceededKeepsMarker(g, s) ==
    Deliver([ObserveAcquisition(g, s, TRUE) EXCEPT !.chromeInitialized = TRUE,
                                                    !.failed = FALSE], s, Ok)

\* learningPathRoutes.ts:45-47
InitSucceeded(g, s) ==
    Deliver([ObserveAcquisition(g, s, TRUE) EXCEPT !.chromeInitialized = TRUE,
                                                    !.chromeInitPromise = 0,
                                                    !.failed = FALSE], s, Ok)

\* the delay taken from the index of the failed attempt, counted from 0
InitDelayFromZero(attempt) == Pow(2, attempt - 1) * InitBackoffBaseMs

\* the delay of learningPathRoutes.ts:58, attempt already incremented
InitDelay(attempt) == Pow(2, attempt) * InitBackoffBaseMs

\* the test of line 51 with > for >=
InitExhaustedLate(attempt) == attempt > InitMaxRetries

\* the test of learningPathRoutes.ts:51
InitExhausted(attempt) == attempt >= InitMaxRetries

\* a catch block without the marker reset of line 50
InitFailedKeepsMarker(g, s, e) ==
    LET a == g.seqs[s].attempt + 1
        g1 == [ObserveAcquisition(g, s, FALSE) EXCEPT !.seqs[s].attempt = a]
    IN IF InitExhausted(a)
       THEN Deliver(g1, s, InitError(InitMaxRetries, e))
       ELSE [g1 EXCEPT !.seqs[s].st = "backoff", !.seqs[s].delays = Append(@, InitDelay(a))]

\* learningPathRoutes.ts:48-58: the acquisition of run s failed with e
InitFailed(g, s, e) ==
    LET a == g.seqs[s].attempt + 1
        g1 == [ObserveAcquisition(g, s, FALSE) EXCEPT !.seqs[s].attempt = a,
                                                       !.chromeInitPromise = 0]
    IN IF InitExhausted(a)
       THEN Deliver(g1, s, InitError(InitMaxRetries, e))
       ELSE [g1 EXCEPT !.seqs[s].st = "backoff", !.seqs[s].delays = Append(@, InitDelay(a))]

\* learningPathRoutes.ts:44 with GoogleScraperService.initialize (part_002:148-165):
\* run s calls initialize(); with a browser handle it resolves at once, without
\* one it starts puppeteer.launch and the run waits for it
Acquire(g, s) ==
    LET g1 == [g EXCEPT !.seqs[s].calls = @ + 1, !.acquisitions = @ + 1,
                        !.acqTotal = IF @ >= 0 THEN @ + 1 ELSE @] IN
    IF g.browser THEN InitSucceeded(g1, s) ELSE [g1 EXCEPT !.seqs[s].st = "acquiring"]

\* learningPathRoutes.ts:42 and 60-61: the loop test of run s; a run that leaves
\* the loop returns, and its promise resolves
InitLoop(g, s) ==
    IF g.seqs[s].attempt < InitMaxRetries THEN Acquire(g, s) ELSE Deliver(g, s, Ok)

\* ------------------------------------------------------------ ensureChromeInitialized
\* learningPathRoutes.ts:35-36: start a run of initializeChrome and await it
StartInit(g, c) ==
    InitLoop([g EXCEPT !.seqs[c] = FreeSeq, !.chromeInitPromise = c,
                       !.callers[c].joined = c, !.callers[c].pc = "awaitInit"], c)

\* a caller that finds the marker set and awaits a promise that never settles
JoinInitNeverSettles(g, c) ==
    [g EXCEPT !.callers[c].joined = 0, !.callers[c].pc = "awaitInit"]

\* learningPathRoutes.ts:34
JoinInit(g, c) ==
    [g EXCEPT !.callers[c].joined = g.chromeInitPromise, !.callers[c].pc = "awaitInit"]

\* a guard that lets one caller at a time use the session: with another caller
\* inside its operation the caller waits and asks again
ReturnReadyWaitsForUse(g, c) ==
    IF \E d \in Procs \ {c} : g.callers[d].pc = "inOp"
    THEN [g EXCEPT !.callers[c].pc = "backoff"]
    ELSE [g EXCEPT !.callers[c] = AfterEnsure(@, Ok)]

\* learningPathRoutes.ts:33
ReturnReady(g, c) == [g EXCEPT !.callers[c] = AfterEnsure(@, Ok)]

\* ensureChromeInitialized without the test of line 34
EnsureNoJoin(g, c) ==
    LET g0 == [g EXCEPT !.callers[c].initOutcome = None] IN
    IF g.chromeInitialized THEN ReturnReady(g0, c) ELSE StartInit(g0, c)

\* ensureChromeInitialized without the test of line 33
EnsureNoReadyCheck(g, c) ==
    LET g0 == [g EXCEPT !.callers[c].initOutcome = None] IN
    IF g.chromeInitPromise # 0 THEN JoinInit(g0, c) ELSE StartInit(g0, c)

\* learningPathRoutes.ts:32-37, called by caller c
ensureChromeInitialized(g, c) ==
    LET g0 == [g EXCEPT !.callers[c].initOutcome = None] IN
    IF g.chromeInitialized THEN ReturnReady(g0, c)
    ELSE IF g.chromeInitPromise # 0 THEN JoinInit(g0, c)
    ELSE StartInit(g0, c)

\* ------------------------------------------------------------ scrapeWithRetry, the loop
\* a scrapeWithRetry that goes on to its backoff and next attempt with the value
\* in hand, in place of the return of line 76
ReturnValueAs(g, c) ==
    [g EXCEPT !.callers[c].pc = "backoff", !.callers[c].initOutcome = None,
              !.callers[c].fresh = FALSE]

\* a return that invalidates the guard on its way out, as the catch block does
ReturnValueInvalidates(g, c) ==
    [g EXCEPT !.callers[c].pc = "done", !.callers[c].initOutcome = None,
              !.callers[c].fresh = FALSE,
              !.callers[c].result = Value(g.callers[c].label, g.callers[c].opCalls),
              !.chromeInitialized = FALSE,
              !.chromeInitPromise = 0]

\* learningPathRoutes.ts:76: the value of the wrapped operation is returned
ReturnValue(g, c) ==
    [g EXCEPT !.callers[c].pc = "done", !.callers[c].initOutcome = None,
              !.callers[c].fresh = FALSE,
              !.callers[c].result = Value(g.callers[c].label, g.callers[c].opCalls)]

\* a catch block that also drops the browser handle of the service
CatchDropsBrowser(g, c, err) ==
    ObserveFailure([g EXCEPT !.callers[c] = CatchRecord([@ EXCEPT !.initOutcome = None], err),
                             !.chromeInitialized = FALSE,
                             !.chromeInitPromise = 0,
                             !.browser = FALSE], {c})

\* learningPathRoutes.ts:77-83: the catch block of caller c runs with err
Catch(g, c, err) ==
    ObserveFailure([g EXCEPT !.callers[c] = CatchRecord([@ EXCEPT !.initOutcome = None], err),
                             !.chromeInitialized = FALSE,
                             !.chromeInitPromise = 0], {c})

\* an attempt that invokes the operation without asking the guard
RetryLoopNoEnsure(g, c) ==
    IF g.callers[c].attempt <= g.callers[c].maxRetries
    THEN [g EXCEPT !.callers[c] = InvokeOp(@)]
    ELSE [g EXCEPT !.callers[c].pc = "done",
                   !.callers[c].result = ExhaustedError(g.callers[c].label)]

\* learningPathRoutes.ts:69-71 and 85: the loop test of caller c, then the attempt
RetryLoop(g, c) ==
    IF g.callers[c].attempt <= g.callers[c].maxRetries
    THEN ensureChromeInitialized(g, c)
    ELSE [g EXCEPT !.callers[c].pc = "done",
                   !.callers[c].result = ExhaustedError(g.callers[c].label)]

\* ------------------------------------------------------------ the state machine
\* history: the count of initialize() calls is kept for a request that runs alone;
\* it starts at 0 when no request is in progress
CountCalls(g) ==
    LET active == {c \in Procs : g.callers[c].pc # "idle"} IN
    IF active = {} THEN 0
    ELSE IF Cardinality(active) > 1 THEN 0 - 1
    ELSE g.acqTotal

\* the step's next state is g, computed once
Becomes(g) ==
    \E h \in {g} :
        /\ acqTotal' = CountCalls(h)
        /\ shutdown' = h.shutdown
        /\ response' = h.response
        /\ chromeInitialized' = h.chromeInitialized
        /\ chromeInitPromise' = h.chromeInitPromise
        /\ browser' = h.browser
        /\ callers' = h.callers
        /\ seqs' = h.seqs
        /\ acquisitions' = h.acquisitions
        /\ settled' = h.settled
        /\ failed' = h.failed

Init ==
    /\ chromeInitialized = FALSE
    /\ chromeInitPromise = 0
    /\ browser = FALSE
    /\ seqs = [s \in SeqIds |-> FreeSeq]
    /\ callers = [c \in Procs |-> IdleCaller]
    /\ acqSettled = FALSE
    /\ acqTotal = 0
    /\ shutdown = Up
    /\ response = NoResponse
    /\ acquisitions = 0
    /\ settled = NoSettle
    /\ failed = FALSE

\* requests are interchangeable: the next one takes the first caller that is free
NextCaller(c) == callers[c].pc = "idle" /\ \A d \in Procs : d < c => callers[d].pc # "idle"

\* a caller invokes ensureChromeInitialized() directly
EnsureCall(c) ==
    /\ NextCaller(c)
    /\ Becomes(ensureChromeInitialized(
           [State EXCEPT !.callers[c] = [IdleCaller EXCEPT !.kind = "ensure"]], c))
    /\ UNCHANGED acqSettled

\* learningPathRoutes.ts:63-72 and 85: scrapeWithRetry(op, label, maxRetries) is called
ScrapeCall(c, label, maxRetries) ==
    /\ NextCaller(c)
    /\ LET cr == [IdleCaller EXCEPT !.kind = "scrape", !.label = label,
                                    !.maxRetries = maxRetries]
       IN Becomes(RetryLoop([State EXCEPT !.callers[c] = cr], c))
    /\ UNCHANGED acqSettled

\* an initialize() that resolves without assigning the browser handle
LaunchSucceedsNoHandle(s) ==
    /\ seqs[s].st = "acquiring"
    /\ Becomes(InitSucceeded(State, s))
    /\ acqSettled' = TRUE

\* puppeteer.launch of run s resolves: part_002:150, then learningPathRoutes.ts:45-47
LaunchSucceeds(s) ==
    /\ seqs[s].st = "acquiring"
    /\ Becomes(InitSucceeded([State EXCEPT !.browser = TRUE], s))
    /\ acqSettled' = TRUE

\* puppeteer.launch of run s rejects with e: learningPathRoutes.ts:48-58
LaunchFails(s, e) ==
    /\ seqs[s].st = "acquiring"
    /\ Becomes(InitFailed(State, s, e))
    /\ acqSettled' = TRUE

\* the timer of learningPathRoutes.ts:58 fires: the loop of run s goes round
InitBackoffEnds(s) ==
    /\ seqs[s].st = "backoff"
    /\ Becomes(InitLoop(State, s))
    /\ UNCHANGED acqSettled

\* learningPathRoutes.ts:72-76: the wrapped operation returns a non-empty value
OpReturnsValue(c) ==
    /\ callers[c].pc = "inOp"
    /\ Becomes(ReturnValue(State, c))
    /\ UNCHANGED acqSettled

\* an empty result handed to the caller as the value of the operation
OpReturnsEmptyAsValue(c) ==
    /\ callers[c].pc = "inOp"
    /\ Becomes(ReturnValue(State, c))
    /\ UNCHANGED acqSettled

\* learningPathRoutes.ts:73-75: the wrapped operation returns no data
OpReturnsEmpty(c) ==
    /\ callers[c].pc = "inOp"
    /\ Becomes(Catch(State, c, EmptyError(callers[c].label)))
    /\ UNCHANGED acqSettled

\* the wrapped operation throws e
OpThrows(c, e) ==
    /\ callers[c].pc = "inOp"
    /\ Becomes(Catch(State, c, Thrown(e)))
    /\ UNCHANGED acqSettled

\* the timer of learningPathRoutes.ts:82 fires: the next attempt starts (line 69-71)
RetryBackoffEnds(c) ==
    /\ callers[c].pc = "backoff"
    /\ Becomes(RetryLoop(State, c))
    /\ UNCHANGED acqSettled

\* the caller's promise has settled and its request is over
Return(c) ==
    /\ callers[c].pc = "done"
    /\ Becomes([State EXCEPT !.callers[c] = IdleCaller])
    /\ UNCHANGED acqSettled

Next ==
    \/ \E c \in Procs : EnsureCall(c)
    \/ \E c \in Procs, label \in Labels, maxRetries \in RetryBudgets :
           ScrapeCall(c, label, maxRetries)
    \/ \E s \in SeqIds : LaunchSucceeds(s)
    \/ \E s \in SeqIds, e \in InitErrors : LaunchFails(s, e)
    \/ \E s \in SeqIds : InitBackoffEnds(s)
    \/ \E c \in Procs : OpReturnsValue(c)
    \/ \E c \in Procs : OpReturnsEmpty(c)
    \/ \E c \in Procs, e \in OpErrors : OpThrows(c, e)
    \/ \E c \in Procs : RetryBackoffEnds(c)
    \/ \E c \in Procs : Return(c)

Spec == Init /\ [][Next]_vars

\* every googleScraperService.initialize() call, every timer and every call of a
\* wrapped operation settles in the end: the awaits of learningPathRoutes.ts:44,
\* 58, 72 and 82 are resumed by the event loop
Settles ==
    /\ \A s \in SeqIds :
          /\ WF_vars(LaunchSucceeds(s) \/ \E e \in InitErrors : LaunchFails(s, e))
          /\ WF_vars(InitBackoffEnds(s))
    /\ \A c \in Procs :
          /\ WF_vars(OpReturnsValue(c) \/ OpReturnsEmpty(c)
                         \/ \E e \in OpErrors : OpThrows(c, e))
          /\ WF_vars(RetryBackoffEnds(c))

SpecSettles == Spec /\ Settles

\* ------------------------------------------------------------ termination signals
\* a handler that calls process.exit without awaiting close()
ExitAtOnce(g, sig) == [g EXCEPT !.shutdown = [st |-> "exited", handlers |-> <<>>, closed |-> "none"]]

\* learningPathRoutes.ts:1198-1199 and 1205-1206: the close() of a handler has
\* settled, the handler calls process.exit(0)
Exit(g, outcome) ==
    [g EXCEPT !.shutdown = [st |-> "exited", handlers |-> <<>>, closed |-> outcome]]

\* learningPathRoutes.ts:1195-1197 and 1202-1204 with GoogleScraperService.close
\* (part_002:167-172): the handler of sig calls close(); with a browser handle
\* close() awaits browser.close(), without one it resolves at once
HandleSignal(g, sig) ==
    IF g.browser
    THEN [g EXCEPT !.shutdown.st = "closing", !.shutdown.handlers = Append(@, sig)]
    ELSE Exit(g, "resolved")

\* a termination signal arrives
Signal(sig) ==
    /\ shutdown.st # "exited"
    /\ Len(shutdown.handlers) < MaxSignals
    /\ Becomes(HandleSignal(State, sig))
    /\ UNCHANGED acqSettled

\* part_002:169-170: browser.close() of handler i resolves, the handle is nulled
\* and close() resolves
CloseResolves(i) ==
    /\ shutdown.st = "closing"
    /\ i \in 1..Len(shutdown.handlers)
    /\ Becomes(Exit([State EXCEPT !.browser = FALSE], "resolved"))
    /\ UNCHANGED acqSettled

\* part_002:169: browser.close() of handler i rejects, close() throws and the
\* handler swallows the error (learningPathRoutes.ts:1198)
CloseRejects(i) ==
    /\ shutdown.st = "closing"
    /\ i \in 1..Len(shutdown.handlers)
    /\ Becomes(Exit(State, "rejected"))
    /\ UNCHANGED acqSettled

\* the server goes on serving until the process is gone; one request at a time
ServeOne ==
    /\ shutdown.st # "exited"
    /\ Next
    /\ \A c \in Procs \ {1} : callers'[c].pc = "idle"

NextShutdown ==
    \/ ServeOne
    \/ \E sig \in Signals : Signal(sig)
    \/ \E i \in 1..MaxSignals : CloseResolves(i)
    \/ \E i \in 1..MaxSignals : CloseRejects(i)

SpecShutdown == Init /\ [][NextShutdown]_vars

\* the server with its requests interleaved as in Spec, until the process is gone
NextServer ==
    \/ shutdown.st # "exited" /\ Next
    \/ \E sig \in Signals : Signal(sig)
    \/ \E i \in 1..MaxSignals : CloseResolves(i)
    \/ \E i \in 1..MaxSignals : CloseRejects(i)

SpecServer == Init /\ [][NextServer]_vars

\* ------------------------------------------------------------ POST /video-options
\* the retry budget of learningPathRoutes.ts:545
VideoOptionsRetries == 3

\* error.message.includes(word) for the errors of the model
Includes(o, word) ==
    LET inner == IF o.msg = "launch timeout" THEN {"timeout"} ELSE {} IN
    CASE o.kind = InitError(0, "").kind -> word \in {"Chrome"} \cup inner
      [] o.kind = "thrown" -> word \in inner
      [] OTHER -> FALSE

\* learningPathRoutes.ts:547-606: the response to the outcome o of the
\* scrapeWithRetry call; valid: some video of the result has a title and a url.
\* A value returned by scrapeWithRetry is not empty (line 73), so the branch of
\* lines 548-554 is not taken
VideoOptionsResponse(o, valid) ==
    IF o.kind = "value"
    THEN IF valid THEN Response(200, TRUE, "")
         ELSE Response(404, FALSE, "No valid videos found for the given topic.")
    ELSE IF Includes(o, "Chrome")
    THEN Response(503, FALSE, "Browser initialization failed. Please try again.")
    ELSE IF Includes(o, "timeout")
    THEN Response(408, FALSE, "Request timed out. Please try again with a more specific topic.")
    ELSE IF Includes(o, "network") \/ Includes(o, "connection")
    THEN Response(502, FALSE,
                  "Network error occurred. Please check your connection and try again.")
    ELSE Response(500, FALSE, "Failed to fetch video options.")

\* learningPathRoutes.ts:542-546: a request for video options calls scrapeWithRetry
VideoOptionsRequest(c) ==
    /\ c = 1
    /\ ScrapeCall(c, "searchVideos", VideoOptionsRetries)

\* learningPathRoutes.ts:547-606: the call has settled and the handler responds
VideoOptionsResponds(c, valid) ==
    /\ callers[c].pc = "done"
    /\ Becomes([State EXCEPT !.callers[c] = IdleCaller,
                             !.response = VideoOptionsResponse(callers[c].result, valid)])
    /\ UNCHANGED acqSettled

\* the server with requests for video options only, one at a time
NextVideoOptions ==
    \/ \E c \in Procs : VideoOptionsRequest(c)
    \/ \E s \in SeqIds : LaunchSucceeds(s)
    \/ \E s \in SeqIds, e \in InitErrors : LaunchFails(s, e)
    \/ \E s \in SeqIds : InitBackoffEnds(s)
    \/ \E c \in Procs : OpReturnsValue(c)
    \/ \E c \in Procs : OpReturnsEmpty(c)
    \/ \E c \in Procs, e \in OpErrors : OpThrows(c, e)
    \/ \E c \in Procs : RetryBackoffEnds(c)
    \/ \E c \in Procs, valid \in BOOLEAN : VideoOptionsResponds(c, valid)

SpecVideoOptions == Init /\ [][NextVideoOptions]_vars

\* ------------------------------------------------------------ derived notions
\* the runs of initializeChrome() that have started and not settled
InFlight == {s \in SeqIds : seqs[s].st # "free"}
\* the runs with a googleScraperService.initialize() call started and not settled
Outstanding == {s \in SeqIds : seqs[s].st = "acquiring"}
\* caller c calls ensureChromeInitialized() in this step
CallsEnsure(c) ==
    \/ EnsureCall(c)
    \/ RetryBackoffEnds(c)
    \/ \E label \in Labels, maxRetries \in RetryBudgets :
           0 <= maxRetries /\ ScrapeCall(c, label, maxRetries)

\* the time a call has spent in the timers of learningPathRoutes.ts:82
RECURSIVE TotalWait(_)
TotalWait(delays) == IF delays = <<>> THEN 0 ELSE Head(delays) + TotalWait(Tail(delays))

\* a caller's record without its history fields
Program(cr) == [cr EXCEPT !.fresh = FALSE, !.stale = {}]

\* caller c runs the catch block of scrapeWithRetry in this step (lines 77-80)
Invalidates(c) == callers[c].kind = "scrape" /\ callers'[c].attempt = callers[c].attempt + 1

\* the guard's state, read off chromeInitialized and the runs of initializeChrome():
\* Ready with the flag set, Initializing with a run in flight, else Failed after a
\* rejected run and Uninitialized otherwise
SessionState ==
    IF chromeInitialized THEN "Ready"
    ELSE IF InFlight # {} THEN "Initializing"
    ELSE IF failed THEN "Failed"
    ELSE "Uninitialized"

RECURSIVE SumCalls(_)
SumCalls(S) == IF S = {} THEN 0
               ELSE LET s == CHOOSE x \in S : TRUE IN seqs[s].calls + SumCalls(S \ {s})

TypeOK ==
    /\ chromeInitialized \in BOOLEAN
    /\ chromeInitPromise \in {0} \cup SeqIds
    /\ browser \in BOOLEAN
    /\ acqSettled \in BOOLEAN
    /\ acquisitions \in 0..1
    /\ failed \in BOOLEAN
    /\ acqTotal \in (0 - 1)..12
    /\ response.status \in {0, 200, 404, 408, 500, 502, 503}
    /\ shutdown.st \in {"up", "closing", "exited"}
    /\ Len(shutdown.handlers) <= MaxSignals
    /\ settled.run \in {0} \cup SeqIds
    /\ \A s \in SeqIds : /\ seqs[s].st \in {"free", "acquiring", "backoff"}
                         /\ seqs[s].attempt \in 0..InitMaxRetries
                         /\ seqs[s].calls \in 0..InitMaxRetries
    /\ \A c \in Procs : /\ callers[c].pc \in {"idle", "awaitInit", "inOp", "backoff", "done"}
                        /\ callers[c].kind \in {"none", "ensure", "scrape"}
                        /\ callers[c].joined \in {0} \cup SeqIds

\* ------------------------------------------------------------ C1
\* C1: callers that invoke ensureChromeInitialized() before the first acquisition
\* has settled cause one googleScraperService.initialize() call between them, all
\* await the one run that made it, and the callers awaiting a run all settle with
\* the outcome of that run.
C1_SingleFlightAtStartup ==
    [][ /\ ~acqSettled =>
            /\ SumCalls(SeqIds) <= 1
            /\ Cardinality(InFlight) <= 1
            /\ \A c \in Procs : callers[c].pc = "awaitInit" =>
                   callers[c].joined = chromeInitPromise /\ chromeInitPromise # 0
        /\ \A s \in SeqIds : \A c \in Waiters(State, s) :
               /\ settled'.run = s => callers'[c].initOutcome = settled'.outcome
               /\ settled'.run # s => Program(callers'[c]) = Program(callers[c]) ]_vars

\* two callers are awaiting the first acquisition
C1_Witness ==
    /\ ~acqSettled
    /\ \E c, d \in Procs : c # d /\ {c, d} \subseteq Waiters(State, chromeInitPromise)
    /\ SumCalls(SeqIds) = 1

\* ------------------------------------------------------------ C2
\* C2: in every reachable state at most one googleScraperService.initialize() call
\* made by the guard is outstanding.
C2_AtMostOneOutstanding == Cardinality(Outstanding) <= 1

\* ------------------------------------------------------------ C3
\* C3: a caller that invokes ensureChromeInitialized() while a run of
\* initializeChrome() is in flight (acquiring or sleeping in its backoff) starts no
\* second run: it awaits the run in flight.
C3_JoinsRunInFlight ==
    [][ \A c \in Procs : (InFlight # {} /\ CallsEnsure(c)) =>
            /\ seqs'[c].st = "free"
            /\ callers'[c].pc = "awaitInit"
            /\ callers'[c].joined \in InFlight ]_vars

\* ------------------------------------------------------------ C4
\* C4: while the guard is Ready, a call of ensureChromeInitialized() returns at
\* once, invokes no googleScraperService.initialize() and leaves the guard as it is.
C4_ReadyIsNoOp ==
    [][ \A c \in Procs : (chromeInitialized /\ CallsEnsure(c)) =>
            /\ acquisitions' = 0
            /\ UNCHANGED <<chromeInitialized, chromeInitPromise, browser, seqs>>
            /\ callers'[c].initOutcome = Ok
            /\ callers'[c].pc \in {"done", "inOp"} ]_vars

\* a caller got through ensureChromeInitialized() on the Ready flag alone, with
\* another caller inside its operation
C4_Witness ==
    /\ chromeInitialized
    /\ acquisitions = 0
    /\ \E c, d \in Procs : /\ c # d
                           /\ callers[c].kind = "ensure" /\ callers[c].result = Ok
                           /\ callers[d].pc = "inOp"

\* ------------------------------------------------------------ C5
\* C5: a run of initializeChrome() whose acquisitions all fail rejects after
\* exactly 3 googleScraperService.initialize() calls: it is rejected by the failure
\* of its 3rd call, never earlier, and it makes no 4th.
C5_RejectsAfterThreeCalls ==
    [][ \A s \in SeqIds :
          /\ seqs[s].calls <= 3
          /\ (settled'.run = s /\ IsError(settled'.outcome)) =>
                 seqs[s].calls = 3 /\ seqs[s].st = "acquiring"
          /\ (seqs[s].calls = 3 /\ \E e \in InitErrors : LaunchFails(s, e)) =>
                 settled'.run = s /\ IsError(settled'.outcome) ]_vars

\* a lone ensureChromeInitialized() caller was rejected, by the failure of the
\* 3rd acquisition of its run
C5_Witness ==
    /\ settled.run # 0 /\ IsError(settled.outcome)
    /\ callers[settled.run].kind = "ensure"
    /\ callers[settled.run].result = settled.outcome
    /\ \A c \in Procs \ {settled.run} : callers[c].pc = "idle"

\* ------------------------------------------------------------ C6
\* C6: the delays a run of initializeChrome() has waited are 2 s after its first
\* failed acquisition and 4 s after its second (2^attempt seconds, attempt being
\* the number of failed acquisitions so far), and a run never waits after its 3rd.
C6_InitBackoffSchedule ==
    \A s \in SeqIds :
        /\ seqs[s].delays = SubSeq(<<2000, 4000>>, 1, seqs[s].attempt)
        /\ seqs[s].st = "backoff" => seqs[s].attempt \in {1, 2}
        /\ seqs[s].st = "acquiring" => seqs[s].attempt \in {0, 1, 2}

\* a run is in its 3rd acquisition, after both waits
C6_Witness ==
    \E s \in SeqIds : /\ seqs[s].st = "acquiring"
                      /\ seqs[s].calls = 3
                      /\ seqs[s].delays = <<2000, 4000>>

C8_FailedIsNotTerminal ==
    [][ /\ \A c \in Procs :
              (failed /\ ~chromeInitialized /\ InFlight = {} /\ CallsEnsure(c)) =>
                  /\ acquisitions' = 1
                  /\ \/ seqs'[c] = [FreeSeq EXCEPT !.st = "acquiring", !.calls = 1]
                     \/ settled' = [run |-> c, outcome |-> Ok]
        /\ \A s \in SeqIds : /\ seqs[s].calls <= 3
                              /\ LaunchSucceeds(s) => chromeInitialized' /\ ~failed' ]_vars

\* the guard is Ready by a run that a lone caller started after a rejection
C8_Witness ==
    /\ chromeInitialized /\ ~failed
    /\ settled.run # 0 /\ settled.outcome = Ok
    /\ callers[settled.run].kind = "scrape"
    /\ callers[settled.run].attempt = 1
    /\ callers[settled.run].opCalls = 1
    /\ \A c \in Procs \ {settled.run} : callers[c].pc = "idle"

\* ------------------------------------------------------------ C9
\* C9: when an acquisition succeeds, the guard is Ready, the marker chromeInitPromise
\* is null and every caller awaiting the run resolves: a direct caller with
\* success, a scrapeWithRetry caller by going on to its operation.
C9_Success ==
    [][ /\ \A s \in SeqIds :
              (LaunchSucceeds(s) \/ (settled'.run = s /\ settled'.outcome = Ok)) =>
                  /\ chromeInitialized'
                  /\ chromeInitPromise' = 0
                  /\ settled' = [run |-> s, outcome |-> Ok]
                  /\ \A c \in Waiters(State, s) \cup {s} :
                         /\ callers'[c].initOutcome = Ok
                         /\ callers[c].kind = "ensure" =>
                                callers'[c].pc = "done" /\ callers'[c].result = Ok
                         /\ callers[c].kind = "scrape" =>
                                /\ callers'[c].pc = "inOp"
                                /\ callers'[c].attempt = callers[c].attempt ]_vars

\* an acquisition has just succeeded with two callers awaiting it
C9_Witness ==
    /\ settled.run # 0 /\ settled.outcome = Ok
    /\ chromeInitialized
    /\ \E c \in Procs \ {settled.run} :
           /\ callers[c].initOutcome = Ok /\ callers[c].pc = "inOp"
           /\ callers[settled.run].pc = "done" /\ callers[settled.run].result = Ok

\* ------------------------------------------------------------ C10
\* C10: scrapeWithRetry(op, label, maxRetries) with maxRetries >= 0 invokes op at
\* most maxRetries + 1 times, and when op returns a non-empty value it returns that
\* value at once: it calls neither ensureChromeInitialized() nor op again.
C10_AtMostBudgetPlusOne ==
    [][ \A c \in Procs : callers[c].kind = "scrape" =>
          /\ callers[c].opCalls <= callers[c].attempt + 1
          /\ 0 <= callers[c].maxRetries => callers[c].opCalls <= callers[c].maxRetries + 1
          /\ OpReturnsValue(c) =>
                 /\ callers'[c].pc = "done"
                 /\ callers'[c].result = Value(callers[c].label, callers[c].opCalls)
                 /\ callers'[c].opCalls = callers[c].opCalls
                 /\ acquisitions' = 0
          /\ callers[c].pc = "done" =>
                 Program(callers'[c]) \in {Program(callers[c]), IdleCaller} ]_vars

\* a call with the default budget has returned the value of its 2nd invocation
C10_Witness ==
    \E c \in Procs : /\ callers[c].kind = "scrape"
                     /\ callers[c].maxRetries = 2
                     /\ callers[c].pc = "done"
                     /\ callers[c].result = Value(callers[c].label, 2)
                     /\ callers[c].attempt = 1

\* ------------------------------------------------------------ C11
\* C11: a scrapeWithRetry call with maxRetries = 2 whose operation fails on attempt
\* 0 invalidates the guard; its second invocation of the operation comes after a
\* googleScraperService.initialize() call that was made after that failure and
\* succeeded; and when the second invocation succeeds, its value is returned.
C11_InvalidateThenRetry ==
    [][ \A c \in Procs : (callers[c].kind = "scrape" /\ callers[c].maxRetries = 2) =>
          /\ (callers[c].pc = "inOp" /\ callers[c].attempt = 0 /\ callers'[c].attempt = 1) =>
                 ~chromeInitialized' /\ callers'[c].pc = "backoff"
          /\ (callers[c].attempt = 1 /\ callers[c].opCalls = 1 /\ callers[c].pc # "inOp"
                  /\ callers'[c].pc = "inOp") =>
                 callers'[c].fresh /\ callers'[c].opCalls = 2
          /\ (callers[c].attempt = 1 /\ callers[c].opCalls = 2 /\ OpReturnsValue(c)) =>
                 callers'[c].result = Value(callers[c].label, 2) ]_vars

\* ------------------------------------------------------------ C12
\* C12: an operation that returns no data fails its attempt like one that throws:
\* the error is '<label> returned empty result', the guard is invalidated, the
\* attempt is counted, and the call either waits the same backoff as after a throw
\* before its next attempt or, with the budget used up, rejects with that error;
\* the empty result is never returned as a success.
C12_EmptyIsFailure ==
    [][ \A c \in Procs : OpReturnsEmpty(c) =>
          /\ ~chromeInitialized' /\ chromeInitPromise' = 0
          /\ callers'[c].attempt = callers[c].attempt + 1
          /\ callers'[c].opCalls = callers[c].opCalls
          /\ callers'[c].result.kind # "value"
          /\ IF callers[c].attempt + 1 > callers[c].maxRetries
             THEN /\ callers'[c].pc = "done"
                  /\ callers'[c].result = EmptyError(callers[c].label)
             ELSE /\ callers'[c].pc = "backoff"
                  /\ callers'[c].delays =
                         Append(callers[c].delays, 2000 * (callers[c].attempt + 1))
          /\ \A e \in OpErrors :
                 LET thrown == Catch(State, c, Thrown(e)) IN
                 /\ chromeInitialized' = thrown.chromeInitialized
                 /\ chromeInitPromise' = thrown.chromeInitPromise
                 /\ browser' = thrown.browser
                 /\ seqs' = thrown.seqs
                 /\ \A d \in Procs \ {c} : callers'[d] = thrown.callers[d]
                 /\ [callers'[c] EXCEPT !.result = None] =
                        [thrown.callers[c] EXCEPT !.result = None] ]_vars

\* a call with the default budget was rejected with the empty-result error after
\* three invocations and both waits
C12_Witness ==
    \E c \in Procs : /\ callers[c].pc = "done"
                     /\ callers[c].maxRetries = 2
                     /\ callers[c].result = EmptyError("searchVideos")
                     /\ callers[c].opCalls = 3
                     /\ callers[c].delays = <<2000, 4000>>

\* ------------------------------------------------------------ C13
\* C13: scrapeWithRetry(op, "searchVideos", 2) whose operation throws is rejected
\* by the throw of its last attempt (attempt 2) and not earlier, with the error
\* thrown by that invocation ("boom") and never with 'searchVideos failed after
\* all retry attempts'; when every attempt reached its operation that is the 3rd
\* invocation.
C13_ExhaustionMessage ==
    [][ \A c \in Procs :
          (callers[c].kind = "scrape" /\ callers[c].label = "searchVideos"
              /\ callers[c].maxRetries = 2) =>
            /\ callers'[c].result # ExhaustedError("searchVideos")
            /\ \A e \in OpErrors : OpThrows(c, e) =>
                 IF callers[c].attempt = 2
                 THEN /\ callers'[c].pc = "done"
                      /\ callers'[c].result = Thrown(e)
                      /\ e = "boom"
                      /\ callers[c].opCalls = callers[c].attempt + 1 =>
                             callers'[c].opCalls = 3
                 ELSE /\ callers'[c].pc = "backoff"
                      /\ callers'[c].result = None ]_vars

\* the call was rejected with "boom" after three invocations
C13_Witness ==
    \E c \in Procs : /\ callers[c].pc = "done"
                     /\ callers[c].label = "searchVideos"
                     /\ callers[c].maxRetries = 2
                     /\ callers[c].result = Thrown("boom")
                     /\ callers[c].opCalls = 3
                     /\ callers[c].attempt = 3

\* ------------------------------------------------------------ C14
\* C14: every failed attempt of scrapeWithRetry (the await of the guard rejected,
\* the operation threw, or it returned no data) leaves the guard not Ready with
\* the marker null; unless it was the last attempt the call then waits
\* 2000 ms * (attempt + 1), attempt being the 0-based index of the failed attempt,
\* and its next attempt starts only when that timer fires.  The delays are
\* 2000, 4000 and, with the budget 3 of /video-options, 6000 ms.
C14_LinearBackoff ==
    [][ /\ \A a \in 0..2 : RetryDelay(a + 1) = 2000 * (a + 1)
        /\ \A c \in Procs : callers[c].kind = "scrape" =>
             /\ callers'[c].attempt = callers[c].attempt + 1 =>
                  /\ callers[c].pc \in {"awaitInit", "inOp"}
                  /\ ~chromeInitialized' /\ chromeInitPromise' = 0
                  /\ callers[c].attempt < callers[c].maxRetries =>
                         /\ callers'[c].pc = "backoff"
                         /\ callers'[c].delays =
                                Append(callers[c].delays, 2000 * (callers[c].attempt + 1))
             /\ (callers[c].pc = "backoff" /\ callers'[c].pc # "backoff") =>
                    RetryBackoffEnds(c)
             /\ callers[c].pc \in {"awaitInit", "inOp", "backoff"} =>
                    callers[c].delays = [i \in 1..callers[c].attempt |-> 2000 * i] ]_vars

\* a call waits its second backoff, after an attempt that failed in the guard
\* and one that failed in the operation
C14_Witness ==
    \E c \in Procs : /\ callers[c].pc = "backoff"
                     /\ callers[c].attempt = 2
                     /\ callers[c].opCalls = 1
                     /\ callers[c].delays = <<2000, 4000>>
                     /\ ~chromeInitialized

\* ------------------------------------------------------------ C15
\* C15: a scrapeWithRetry caller with a failed attempt behind it is inside its
\* operation only by way of a re-initialization: a googleScraperService.initialize()
\* call made after the caller observed its last failure has succeeded, and the
\* Ready state the caller went by is not one set only by calls made before it.
C15_ReinitializedBeforeRetry ==
    \A c \in Procs :
        (callers[c].kind = "scrape" /\ callers[c].pc = "inOp" /\ callers[c].attempt >= 1) =>
            callers[c].fresh

\* ------------------------------------------------------------ C16
\* C16: when the guard rejects inside an attempt of scrapeWithRetry, the operation
\* is not invoked in that attempt and the attempt is counted once; if it was the
\* last attempt the caller receives the initialization error, else it backs off.
\* A request that ran alone and never reached its operation has made
\* (maxRetries + 1) * 3 googleScraperService.initialize() calls when it is rejected.
C16_InitFailureInAttempt ==
    [][ \A c \in Procs : callers[c].kind = "scrape" =>
          /\ (callers[c].pc = "awaitInit" /\ settled'.run = callers[c].joined
                  /\ IsError(settled'.outcome)) =>
               /\ callers'[c].opCalls = callers[c].opCalls
               /\ callers'[c].attempt = callers[c].attempt + 1
               /\ settled'.outcome = InitError(3, settled'.outcome.msg)
               /\ IF callers[c].attempt = callers[c].maxRetries
                  THEN callers'[c].pc = "done" /\ callers'[c].result = settled'.outcome
                  ELSE callers'[c].pc = "backoff" /\ callers'[c].result = None
          /\ (callers'[c].pc = "done" /\ callers'[c].opCalls = 0 /\ acqTotal' >= 0
                  /\ callers'[c].maxRetries >= 0) =>
               /\ acqTotal' = (callers'[c].maxRetries + 1) * 3
               /\ callers'[c].result \in {InitError(3, e) : e \in InitErrors} ]_vars

\* a request with the default budget that ran alone was rejected with the
\* initialization error after 9 initialize() calls, its operation never invoked
C16_Witness ==
    \E c \in Procs : /\ callers[c].pc = "done"
                     /\ callers[c].maxRetries = 2
                     /\ callers[c].opCalls = 0
                     /\ callers[c].attempt = 3
                     /\ callers[c].result \in {InitError(3, e) : e \in InitErrors}
                     /\ acqTotal = 9

\* ------------------------------------------------------------ C17
\* C17: scrapeWithRetry invokes its operation only as the continuation of an
\* ensureChromeInitialized() call of the same attempt that resolved: the call was
\* made in this step or is the one the caller was awaiting, it resolved with
\* success, and the guard is Ready with a browser handle at the invocation.  The
\* operations leave the browser handle alone, and chromeInitialized changes only
\* in the guard: to true when an initialize() call succeeds, to false in the
\* catch block of scrapeWithRetry.
C17_OpOnlyThroughGuard ==
    [][ /\ \A c \in Procs : (callers[c].pc # "inOp" /\ callers'[c].pc = "inOp") =>
              /\ callers[c].pc = "awaitInit" \/ CallsEnsure(c)
              /\ callers'[c].initOutcome = Ok
              /\ callers'[c].attempt = callers[c].attempt
              /\ callers'[c].opCalls = callers[c].opCalls + 1
              /\ chromeInitialized' /\ browser'
        /\ \A c \in Procs :
              (OpReturnsValue(c) \/ OpReturnsEmpty(c) \/ \E e \in OpErrors : OpThrows(c, e)) =>
                  browser' = browser
        /\ browser => browser'
        /\ (~chromeInitialized /\ chromeInitialized') =>
               settled'.run # 0 /\ settled'.outcome = Ok
        /\ (chromeInitialized /\ ~chromeInitialized') =>
               \E c \in Procs : /\ callers[c].kind = "scrape"
                                /\ callers'[c].attempt = callers[c].attempt + 1 ]_vars

\* a caller is inside its operation for the second time, let through by the guard
C17_Witness ==
    \E c \in Procs : /\ callers[c].pc = "inOp"
                     /\ callers[c].attempt = 1
                     /\ callers[c].opCalls = 2
                     /\ callers[c].initOutcome = Ok
                     /\ chromeInitialized /\ browser

\* ------------------------------------------------------------ C18
\* C18: the process exits on a termination signal only after the handler's
\* googleScraperService.close() was invoked and has settled, and it exits when
\* that close() resolves as well as when it throws; until then it stays up.
C18_CloseBeforeExit ==
    [][ /\ (shutdown.st # "exited" /\ shutdown'.st = "exited") =>
              /\ shutdown'.closed \in {"resolved", "rejected"}
              /\ \/ shutdown.handlers # <<>>
                 \/ ~browser /\ \E sig \in Signals : Signal(sig)
              /\ shutdown'.closed = "resolved" => ~browser'
        /\ \A i \in 1..MaxSignals :
              /\ CloseRejects(i) => shutdown'.st = "exited" /\ shutdown'.closed = "rejected"
              /\ CloseResolves(i) => shutdown'.st = "exited" /\ shutdown'.closed = "resolved"
        /\ \A sig \in Signals : (browser /\ Signal(sig)) =>
              /\ shutdown'.st = "closing"
              /\ shutdown'.handlers = Append(shutdown.handlers, sig)
        /\ shutdown.st = "exited" => UNCHANGED vars ]_vars

\* the process has exited although close() threw, with a request in progress
C18_Witness ==
    /\ shutdown.st = "exited"
    /\ shutdown.closed = "rejected"
    /\ browser
    /\ callers[1].pc = "inOp"

\* ------------------------------------------------------------ C19
\* C19: when the scrape of a POST /video-options request found no videos (the
\* request's last searchVideos returned an empty list), the response is 404 with
\* success false, the error 'No videos found for the given topic.' and a searchTime.
C19_NoVideosIs404 ==
    [][ \A c \in Procs, valid \in BOOLEAN :
          (VideoOptionsResponds(c, valid)
              /\ callers[c].result = EmptyError("searchVideos")) =>
            response' = [status |-> 404, success |-> FALSE,
                         error |-> "No videos found for the given topic.",
                         searchTime |-> TRUE] ]_vars

\* ------------------------------------------------------------ C20
\* C20: the guard's state changes only by the listed transitions: Uninitialized
\* (or Failed, which behaves like it) -> Initializing at a readiness request,
\* Initializing -> Ready when an acquisition succeeds, Initializing -> Failed at
\* exhaustion, and out of Ready by an invalidation, after which the guard is
\* Initializing again or, until the invalidating caller's next attempt, as
\* before its first initialization; a request that finds a browser handle goes
\* through Initializing to Ready in one step.  An invalidation changes the guard
\* only from Ready, and it does not clear the marker of a run in flight.
C20_ListedTransitions ==
    [][ /\ SessionState' # SessionState =>
             \/ /\ SessionState \in {"Uninitialized", "Failed"}
                /\ SessionState' = "Initializing"
                /\ \E c \in Procs : CallsEnsure(c)
             \/ /\ SessionState \in {"Uninitialized", "Failed"}
                /\ SessionState' = "Ready"
                /\ \E c \in Procs : CallsEnsure(c)
                /\ acquisitions' = 1
             \/ /\ SessionState = "Initializing"
                /\ SessionState' = "Ready"
                /\ settled'.run # 0 /\ settled'.outcome = Ok
             \/ /\ SessionState = "Initializing"
                /\ SessionState' = "Failed"
                /\ IsError(settled'.outcome)
             \/ /\ SessionState = "Ready"
                /\ SessionState' \in {"Initializing", "Uninitialized"}
                /\ \E c \in Procs : Invalidates(c)
        /\ \A c \in Procs : (Invalidates(c) /\ ~chromeInitialized) =>
             \/ chromeInitPromise' = chromeInitPromise
             \/ chromeInitPromise # 0 /\ chromeInitPromise = settled'.run
        /\ \A c \in Procs, s \in SeqIds :
             (Invalidates(c) /\ chromeInitPromise = s /\ s \in InFlight') =>
                 chromeInitPromise' = s ]_vars

\* ------------------------------------------------------------ C21
\* C21: the guard serializes initialization only, not use.  While the guard is
\* Ready a scrapeWithRetry caller that asks it goes on to its operation in the
\* same step although another caller is inside its own operation, and that other
\* caller is left as it is; an operation that completes leaves the other callers
\* inside their operations, and a caller inside its operation can complete
\* whatever the others do.
C21_UseIsNotSerialized ==
    [][ \A c, d \in Procs : (c # d /\ callers[d].pc = "inOp") =>
          /\ (chromeInitialized /\ CallsEnsure(c) /\ callers'[c].kind = "scrape") =>
                 /\ callers'[c].pc = "inOp"
                 /\ callers'[d] = callers[d]
          /\ (callers[c].pc = "inOp" /\ callers'[c].pc # "inOp") =>
                 /\ callers'[d].pc = "inOp"
                 /\ Program(callers'[d]) = Program(callers[d])
          /\ callers[c].pc = "inOp" => ENABLED OpReturnsValue(c) ]_vars

\* two callers are inside their operations at the same time, the second let
\* through on the Ready flag while the first was inside
C21_Witness ==
    /\ chromeInitialized
    /\ acquisitions = 0 /\ settled = NoSettle
    /\ \A c \in Procs : callers[c].kind = "scrape" /\ callers[c].pc = "inOp"

\* ------------------------------------------------------------ C22
\* C22: when every initialize() call, every operation and every timer settles in
\* the end, each scrapeWithRetry call settles, whatever the other callers do: with
\* a value or with an error, and with an error whenever its attempts are used up.
C22_Terminates ==
    /\ [](\A c \in Procs : (callers[c].kind = "scrape" /\ callers[c].pc = "done") =>
             /\ callers[c].result.kind = "value" \/ IsError(callers[c].result)
             /\ callers[c].attempt > callers[c].maxRetries => IsError(callers[c].result))
    /\ \A c \in Procs :
           (callers[c].kind = "scrape" /\ callers[c].pc # "done")
               ~> (callers[c].kind = "scrape" /\ callers[c].pc = "done")

\* a call that joined another caller's run has settled with the error of its
\* last attempt, its budget used up
C22_Witness ==
    \E c \in Procs : /\ callers[c].kind = "scrape"
                     /\ callers[c].pc = "done"
                     /\ callers[c].maxRetries = 2
                     /\ callers[c].attempt = 3
                     /\ IsError(callers[c].result)
                     /\ settled.run \notin {0, c}

\* ------------------------------------------------------------ C23
\* C23: when a scrapeWithRetry caller runs its catch block while a run of
\* initializeChrome() is in flight for other callers, the marker of that run stays
\* set: chromeInitPromise still names the run after the step, so that the next
\* ensureChromeInitialized() caller joins it.
C23_InvalidationKeepsMarker ==
    [][ \A c \in Procs, s \in SeqIds :
          (Invalidates(c) /\ chromeInitPromise = s /\ s \in InFlight /\ s \in InFlight') =>
              chromeInitPromise' = s ]_vars

\* ------------------------------------------------------------ C24
\* C24: at most one browser is launched and live at a time.  puppeteer.launch is
\* started only with no browser handle and no other launch pending, and a launch
\* that resolves finds the handle still null, so that no handle is overwritten.
C24_OneBrowser ==
    [][ \A s \in SeqIds :
          /\ (seqs[s].st # "acquiring" /\ seqs'[s].st = "acquiring") =>
                 ~browser /\ Outstanding = {}
          /\ LaunchSucceeds(s) => ~browser /\ Outstanding = {s} ]_vars

\* ------------------------------------------------------------ C25
\* C25: the catch block of scrapeWithRetry clears chromeInitialized and
\* chromeInitPromise and leaves the browser handle of the service as it is, neither
\* closed nor nulled, and it touches no run of initializeChrome().  So, after an
\* operation failed on a live handle, the googleScraperService.initialize() call of
\* the next ensureChromeInitialized() finds the handle, launches no browser and
\* resolves at once, and the guard is Ready again with the same handle.
C25_InvalidationKeepsHandle ==
    [][ \A c \in Procs :
          /\ Invalidates(c) => browser' = browser
          /\ (OpReturnsEmpty(c) \/ \E e \in OpErrors : OpThrows(c, e)) =>
                 /\ browser /\ browser'
                 /\ ~chromeInitialized' /\ chromeInitPromise' = 0
                 /\ UNCHANGED <<seqs, shutdown, response>>
          /\ (browser /\ ~chromeInitialized /\ CallsEnsure(c)) =>
                 /\ acquisitions' = 1
                 /\ Outstanding' = Outstanding
                 /\ settled' = [run |-> c, outcome |-> Ok]
                 /\ browser' /\ chromeInitialized' ]_vars

\* a caller is inside its operation again after a failed one: the initialize()
\* call of its second attempt found the handle and resolved in the same step
C25_Witness ==
    \E c \in Procs : /\ callers[c].kind = "scrape"
                     /\ callers[c].pc = "inOp"
                     /\ callers[c].attempt = 1
                     /\ callers[c].opCalls = 2
                     /\ settled = [run |-> c, outcome |-> Ok]
                     /\ acquisitions = 1
                     /\ Outstanding = {}
                     /\ browser

\* ------------------------------------------------------------ C26
\* C26: in every reachable state the Ready flag and the in-flight marker exclude
\* each other: chromeInitialized = true implies chromeInitPromise = null.
C26_ReadyExcludesMarker == chromeInitialized => chromeInitPromise = 0

\* the guard is Ready with the marker null while a run started by another caller
\* is still in flight: the success that set the flag cleared that run's marker
C26_Witness ==
    /\ chromeInitialized
    /\ chromeInitPromise = 0
    /\ settled.run # 0 /\ settled.outcome = Ok
    /\ InFlight # {}

\* ------------------------------------------------------------ C27
\* C27: in every reachable state before a termination signal is handled, a Ready
\* guard implies a browser handle: chromeInitialized = true implies that
\* GoogleScraperService.browser is non-null.
C27_ReadyHasBrowser == shutdown.st = "up" => (chromeInitialized => browser)

\* no signal has arrived and the guard is Ready again, after an invalidation, on
\* the handle it had; the other caller is inside its operation too
C27_Witness ==
    /\ shutdown.st = "up"
    /\ chromeInitialized /\ browser
    /\ \E c \in Procs : /\ callers[c].pc = "inOp" /\ callers[c].attempt = 1
                        /\ settled = [run |-> c, outcome |-> Ok]
                        /\ \E d \in Procs \ {c} : callers[d].pc = "inOp"

\* ------------------------------------------------------------ C28
\* C28: an attempt of scrapeWithRetry that succeeds leaves the guard as it is.
\* The caller enters its operation with the guard Ready and the marker null, the
\* values at the resolution of its ensureChromeInitialized(); while it is inside,
\* chromeInitialized and chromeInitPromise change only in steps of other callers
\* or of their runs; and the step that returns the value changes neither, nor the
\* browser handle, nor any run.
C28_SuccessKeepsGuard ==
    [][ \A c \in Procs : callers[c].kind = "scrape" =>
          /\ (callers[c].pc # "inOp" /\ callers'[c].pc = "inOp") =>
                 chromeInitialized' /\ chromeInitPromise' = 0
          /\ (callers[c].pc = "inOp" /\ callers'[c].pc = "inOp"
                  /\ <<chromeInitialized, chromeInitPromise>>' #
                         <<chromeInitialized, chromeInitPromise>>) =>
                 /\ Program(callers'[c]) = Program(callers[c])
                 /\ \E d \in Procs \ {c} : \/ Program(callers'[d]) # Program(callers[d])
                                           \/ seqs'[d] # seqs[d]
          /\ OpReturnsValue(c) =>
                 /\ UNCHANGED <<chromeInitialized, chromeInitPromise, browser, seqs>>
                 /\ callers'[c].pc = "done"
                 /\ callers'[c].result.kind = "value" ]_vars

\* a call has returned the value of its first attempt and the guard is Ready
\* with the marker null, as it was when the attempt began; the other caller is
\* still inside its operation
C28_Witness ==
    \E c \in Procs : /\ callers[c].kind = "scrape"
                     /\ callers[c].pc = "done"
                     /\ callers[c].attempt = 0
                     /\ callers[c].result = Value(callers[c].label, 1)
                     /\ chromeInitialized /\ chromeInitPromise = 0
                     /\ \E d \in Procs \ {c} : callers[d].pc = "inOp"

\* ------------------------------------------------------------ C29
\* C29: neither loop waits after its last failed attempt.  A run of
\* initializeChrome() rejects in the step in which its 3rd acquisition fails, having
\* waited 2000 and 4000 ms; scrapeWithRetry rejects in the step in which its attempt
\* number maxRetries fails, having waited maxRetries timers and none for that
\* attempt; with the budget 2 the timers are 2000 and 4000 ms, 6000 ms in total,
\* which is all the call waits when each of its acquisitions succeeds.
C29_NoWaitAfterLastAttempt ==
    [][ /\ \A s \in SeqIds : (settled'.run = s /\ IsError(settled'.outcome)) =>
              /\ seqs[s].st = "acquiring"
              /\ seqs[s].attempt = InitMaxRetries - 1
              /\ seqs[s].delays = <<2000, 4000>>
        /\ \A c \in Procs :
              (callers[c].kind = "scrape" /\ callers[c].pc # "done"
                  /\ callers'[c].pc = "done" /\ IsError(callers'[c].result)) =>
                /\ callers[c].pc \in {"inOp", "awaitInit"}
                /\ callers[c].attempt = callers[c].maxRetries
                /\ callers'[c].delays = callers[c].delays
                /\ Len(callers'[c].delays) = callers[c].maxRetries
                /\ callers[c].maxRetries = 2 =>
                       /\ callers'[c].delays = <<2000, 4000>>
                       /\ TotalWait(callers'[c].delays) = 2000 + 4000 ]_vars

\* a request that ran alone was rejected after three failed operations, each
\* attempt's one initialize() call having succeeded, and has waited 6000 ms
C29_Witness ==
    \E c \in Procs : /\ callers[c].kind = "scrape"
                     /\ callers[c].pc = "done"
                     /\ callers[c].maxRetries = 2
                     /\ callers[c].opCalls = 3
                     /\ IsError(callers[c].result)
                     /\ acqTotal = 3
                     /\ TotalWait(callers[c].delays) = 6000

\* ------------------------------------------------------------ C30
\* C30: scrapeWithRetry produces '<label> failed after all retry attempts' only
\* for maxRetries < 0, and then at once: it calls neither ensureChromeInitialized()
\* nor the operation and leaves the guard alone.  For maxRetries >= 0 a call whose
\* attempts are used up rejects with the error caught in its last attempt: the
\* error the operation threw, the empty-result error, or the error its await of
\* the guard rejected with.
C30_ExhaustedErrorOnlyBelowZero ==
    [][ \A c \in Procs :
          /\ (callers'[c].result = ExhaustedError(callers'[c].label)
                  /\ callers'[c].kind = "scrape") =>
                 callers'[c].maxRetries < 0 /\ callers'[c].opCalls = 0
          /\ \A label \in Labels, maxRetries \in RetryBudgets :
                 (ScrapeCall(c, label, maxRetries) /\ maxRetries < 0) =>
                     /\ callers'[c].pc = "done"
                     /\ callers'[c].result = ExhaustedError(label)
                     /\ callers'[c].initOutcome = None
                     /\ callers'[c].attempt = 0
                     /\ acquisitions' = 0
                     /\ UNCHANGED <<chromeInitialized, chromeInitPromise, browser, seqs>>
          /\ (callers[c].kind = "scrape" /\ callers[c].pc # "done"
                  /\ callers'[c].pc = "done" /\ IsError(callers'[c].result)) =>
                 /\ callers[c].maxRetries >= 0
                 /\ callers'[c].attempt = callers[c].maxRetries + 1
                 /\ \/ \E e \in OpErrors : OpThrows(c, e) /\ callers'[c].result = Thrown(e)
                    \/ OpReturnsEmpty(c) /\ callers'[c].result = EmptyError(callers[c].label)
                    \/ /\ callers[c].pc = "awaitInit"
                       /\ settled'.run = callers[c].joined
                       /\ callers'[c].result = settled'.outcome ]_vars

\* a call with a negative budget was rejected with the exhaustion message
\* without a guard call or an invocation, the guard never initialized
C30_Witness ==
    /\ \E c \in Procs : /\ callers[c].kind = "scrape"
                        /\ callers[c].pc = "done"
                        /\ callers[c].maxRetries < 0
                        /\ callers[c].result = ExhaustedError("searchVideos")
                        /\ callers[c].opCalls = 0
    /\ ~chromeInitialized /\ chromeInitPromise = 0 /\ ~browser
    /\ ~acqSettled /\ InFlight = {}

====
